---- MODULE Spec2Model ----
(***************************************************************************)
(* Model of src/net/discovery.rs: the RTSP discovery pipeline              *)
(* (find_rtsp_streams), its three stages of worker threads and the         *)
(* per-path DESCRIBE classification (get_describe_status,                  *)
(* find_rtsp_paths).                                                       *)
(***************************************************************************)
EXTENDS Integers, Sequences, FiniteSets, TLC

\* ---------------------------------------------------------------- bounds
NumDevs  == 2    \* network interfaces returned by EthernetDevice::list()
MaxMacs  == 2    \* hosts that can answer a scan
NumPorts == 1    \* candidate ports that can be open on a host
MaxOpen  == 2    \* open (host, port) pairs on the scanned networks
MaxPaths == 2    \* lines of the path file / length of a path list
MaxProbes == 3   \* lines of the path file when find_rtsp_paths is run alone
MaxMedia == 2    \* media descriptions of a session description
MaxAttrs == 1    \* attributes of a media description
LiveDevs == 1    \* network interfaces when termination is checked

\* ------------------------------------------------------ program constants
PortCandidates == <<554, 88, 81, 555, 7447, 8554, 7070, 10554, 80>>
HINFO_FLAG_ARP  == "ARP"
HINFO_FLAG_ICMP == "ICMP"

\* Strings that the code inspects character-wise are tuples of characters.
P11     == <<"/", "1", "1">>
P12     == <<"/", "1", "2">>
P1      == <<"/", "1">>
Comment == <<"#", "x">>
PathNames == {P11, P12, P1}

HipcamA  == "HiIpcam/V100R003 VodServer/1.0.0"
HipcamB  == "Hipcam RealServer/V1.0"
NoHeader == "<no Server header>"
Servers  == {HipcamA, HipcamB, "GStreamer RTSP server", NoHeader}
Codes    == {200, 401, 404, 500}

\* ------------------------------------------------------------ Result<T>
Ok(v)  == [ok |-> TRUE, val |-> v]
Err(m) == [ok |-> FALSE, err |-> m]

\* ------------------------------------------------------------------ SDP
\* A body is what SessionDescription::parse makes of it: a parse failure or
\* a list of media descriptions; an attribute is what RTPMap::parse makes of
\* it: a failure or an encoding name.
Attr(isRtpmap, enc) == [rtpmap |-> isRtpmap, encoding |-> enc]
Media(t, attrs)     == [media_type |-> t, attributes |-> attrs]
Sdp(parses, media)  == [parse_ok |-> parses, media_descriptions |-> media]

\* Encoding names as the characters of the rtpmap attribute.
EncH264         == <<"H", "2", "6", "4">>
EncH264Rcdo     == <<"H", "2", "6", "4", "-", "R", "C", "D", "O">>
EncH264Svc      == <<"H", "2", "6", "4", "-", "S", "V", "C">>
EncMp4vEs       == <<"M", "P", "4", "V", "-", "E", "S">>
EncMpeg4Generic == <<"M", "P", "E", "G", "4", "-", "G", "E", "N", "E", "R", "I", "C">>
EncLowerH264    == <<"h", "2", "6", "4">>
EncMixedMp4vEs  == <<"M", "p", "4", "v", "-", "E", "s">>
EncLowerMpeg4   == <<"m", "p", "e", "g", "4", "-", "g", "e", "n", "e", "r", "i", "c">>
EncJpeg         == <<"J", "P", "E", "G">>
EncH265         == <<"H", "2", "6", "5">>
EncPcmu         == <<"P", "C", "M", "U">>
EncControl      == <<"c", "o", "n", "t", "r", "o", "l">>

BodyGarbage   == Sdp(FALSE, <<>>)
BodyEmpty     == Sdp(TRUE, <<>>)
BodyH264      == Sdp(TRUE, <<Media("Video", <<Attr(FALSE, EncControl), Attr(TRUE, EncH264)>>)>>)
BodyLowerH264 == Sdp(TRUE, <<Media("Audio", <<Attr(TRUE, EncPcmu)>>), Media("Video", <<Attr(TRUE, EncLowerH264)>>)>>)
BodyMp4v      == Sdp(TRUE, <<Media("Video", <<Attr(TRUE, EncMp4vEs)>>)>>)
BodyJpeg      == Sdp(TRUE, <<Media("Video", <<Attr(TRUE, EncJpeg)>>)>>)
BodyAudioOnly == Sdp(TRUE, <<Media("Audio", <<Attr(TRUE, EncPcmu)>>)>>)
BodyAudioH264 == Sdp(TRUE, <<Media("Audio", <<Attr(TRUE, EncH264)>>), Media("Video", <<Attr(FALSE, EncH264)>>)>>)
Bodies == {BodyGarbage, BodyEmpty, BodyH264, BodyLowerH264, BodyMp4v,
           BodyJpeg, BodyAudioOnly, BodyAudioH264}

\* str::to_uppercase, character by character.
LowerCase == <<"a", "b", "c", "d", "e", "f", "g", "h", "i", "j", "k", "l", "m", "n", "o", "p", "q", "r", "s", "t", "u", "v", "w", "x", "y", "z">>
UpperCase == <<"A", "B", "C", "D", "E", "F", "G", "H", "I", "J", "K", "L", "M", "N", "O", "P", "Q", "R", "S", "T", "U", "V", "W", "X", "Y", "Z">>
UpperChar(c) ==
    IF \E n \in DOMAIN LowerCase : LowerCase[n] = c
    THEN UpperCase[CHOOSE n \in DOMAIN LowerCase : LowerCase[n] = c]
    ELSE c
ToUppercase(s) == [n \in DOMAIN s |-> UpperChar(s[n])]

Range(s) == {s[i] : i \in DOMAIN s}

\* Variant: the rtpmap attributes of every media description are collected,
\* not only those of the video streams.
IsSupportedServiceNoFilter(sdp) ==
    IF sdp.parse_ok
    THEN LET video_streams == Range(sdp.media_descriptions)
             vcodecs == {ToUppercase(a.encoding) :
                           a \in {x \in UNION {Range(md.attributes) : md \in video_streams} :
                                    x.rtpmap}}
         IN  \/ EncH264 \in vcodecs
             \/ EncH264Rcdo \in vcodecs
             \/ EncH264Svc \in vcodecs
             \/ EncMp4vEs \in vcodecs
             \/ EncMpeg4Generic \in vcodecs
    ELSE FALSE

IsSupportedService(sdp) ==
    IF sdp.parse_ok
    THEN LET video_streams == {md \in Range(sdp.media_descriptions) : md.media_type = "Video"}
             vcodecs == {ToUppercase(a.encoding) :
                           a \in {x \in UNION {Range(md.attributes) : md \in video_streams} :
                                    x.rtpmap}}
         IN  \/ EncH264 \in vcodecs
             \/ EncH264Rcdo \in vcodecs
             \/ EncH264Svc \in vcodecs
             \/ EncMp4vEs \in vcodecs
             \/ EncMpeg4Generic \in vcodecs
    ELSE FALSE

\* ------------------------------------------------------- DescribeStatus
DescribeStatus == {"Ok", "Locked", "Unsupported", "NotFound", "Error"}

\* What the RTSP collaborator answers to one DESCRIBE: whether the client
\* could be constructed, whether the request succeeded, and the response.
Response(c, d, s, code, b) ==
    [client |-> c, describe |-> d, server |-> s, code |-> code, body |-> b]
ClientFailure   == Response(FALSE, FALSE, NoHeader, 0, BodyGarbage)
DescribeFailure == Response(TRUE, FALSE, NoHeader, 0, BodyGarbage)
Responses ==
    {ClientFailure, DescribeFailure}
    \cup {Response(TRUE, TRUE, s, code, b) : s \in Servers, code \in Codes, b \in Bodies}

GetDescribeStatusNoQuirk(resp, path) ==
    IF ~resp.client
    THEN Err("RTSP client error")
    ELSE IF resp.describe
         THEN CASE resp.code = 404 -> Ok("NotFound")
                [] resp.code = 401 -> Ok("Locked")
                [] resp.code = 200 /\ IsSupportedService(resp.body) -> Ok("Ok")
                [] resp.code = 200 /\ ~IsSupportedService(resp.body) -> Ok("Unsupported")
                [] OTHER -> Ok("Error")
         ELSE Ok("Error")

\* Variant: a failed DESCRIBE request is returned as an error.
GetDescribeStatusStrict(resp, path) ==
    IF ~resp.client
    THEN Err("RTSP client error")
    ELSE IF resp.describe
         THEN LET hipcam == resp.server \in {HipcamA, HipcamB}
              IN  IF hipcam /\ path # P11 /\ path # P12
                  THEN Ok("NotFound")
                  ELSE CASE resp.code = 404 -> Ok("NotFound")
                         [] resp.code = 401 -> Ok("Locked")
                         [] resp.code = 200 /\ IsSupportedService(resp.body) -> Ok("Ok")
                         [] resp.code = 200 /\ ~IsSupportedService(resp.body) -> Ok("Unsupported")
                         [] OTHER -> Ok("Error")
         ELSE Err("RTSP client error")

GetDescribeStatusSwapped(resp, path) ==
    IF ~resp.client
    THEN Err("RTSP client error")
    ELSE IF resp.describe
         THEN LET hipcam == resp.server \in {HipcamA, HipcamB}
              IN  IF hipcam /\ path # P11 /\ path # P12
                  THEN Ok("NotFound")
                  ELSE CASE resp.code = 404 -> Ok("NotFound")
                         [] resp.code = 401 -> Ok("Error")
                         [] resp.code = 200 /\ IsSupportedService(resp.body) -> Ok("Ok")
                         [] resp.code = 200 /\ ~IsSupportedService(resp.body) -> Ok("Unsupported")
                         [] OTHER -> Ok("Locked")
         ELSE Ok("Error")

GetDescribeStatus(resp, path) ==
    IF ~resp.client
    THEN Err("RTSP client error")
    ELSE IF resp.describe
         THEN LET hipcam == resp.server \in {HipcamA, HipcamB}
              IN  IF hipcam /\ path # P11 /\ path # P12
                  THEN Ok("NotFound")
                  ELSE CASE resp.code = 404 -> Ok("NotFound")
                         [] resp.code = 401 -> Ok("Locked")
                         [] resp.code = 200 /\ IsSupportedService(resp.body) -> Ok("Ok")
                         [] resp.code = 200 /\ ~IsSupportedService(resp.body) -> Ok("Unsupported")
                         [] OTHER -> Ok("Error")
         ELSE Ok("Error")

\* -------------------------------------------------------------- Service
RTSP(mac, addr, path)            == [kind |-> "RTSP", mac |-> mac, addr |-> addr, path |-> path]
UnsupportedRTSP(mac, addr, path) == [kind |-> "UnsupportedRTSP", mac |-> mac, addr |-> addr, path |-> path]
LockedRTSP(mac, addr)            == [kind |-> "LockedRTSP", mac |-> mac, addr |-> addr, path |-> <<>>]
UnknownRTSP(mac, addr)           == [kind |-> "UnknownRTSP", mac |-> mac, addr |-> addr, path |-> <<>>]

\* ----------------------------------------------------------- ScanReport
\* net::arrow::protocol::ScanReport: hosts keyed by mac address, open port
\* records and the service list.
ScanReportNew == [hosts |-> {}, ports |-> {}, services |-> <<>>]

AddHost(report, mac, ip, flags) ==
    IF \E h \in report.hosts : h.mac = mac
    THEN [report EXCEPT !.hosts =
            {IF h.mac = mac THEN [h EXCEPT !.flags = h.flags \cup flags] ELSE h : h \in report.hosts}]
    ELSE [report EXCEPT !.hosts = report.hosts \cup {[mac |-> mac, ip |-> ip, flags |-> flags]}]

AddPort(report, mac, ip, port) ==
    [report EXCEPT !.ports = report.ports \cup {[mac |-> mac, ip |-> ip, port |-> port]}]

AddService(report, svc) ==
    [report EXCEPT !.services = Append(report.services, svc)]

RECURSIVE AddHosts(_, _, _)
AddHosts(report, found, flags) ==
    IF found = {} THEN report
    ELSE LET h == CHOOSE x \in found : \A y \in found : x.mac <= y.mac
         IN  AddHosts(AddHost(report, h.mac, h.ip, flags), found \ {h}, flags)

RECURSIVE AddPorts(_, _)
AddPorts(report, found) ==
    IF found = {} THEN report
    ELSE LET p == CHOOSE x \in found : \A y \in found :
                     x.mac < y.mac \/ (x.mac = y.mac /\ x.port <= y.port)
         IN  AddPorts(AddPort(report, p.mac, p.ip, p.port), found \ {p})

RECURSIVE AddServices(_, _)
AddServices(report, svcs) ==
    IF svcs = <<>> THEN report
    ELSE AddServices(AddService(report, Head(svcs)), Tail(svcs))

RECURSIVE MergeHosts(_, _)
MergeHosts(report, hosts) ==
    IF hosts = {} THEN report
    ELSE LET h == CHOOSE x \in hosts : \A y \in hosts : x.mac <= y.mac
         IN  MergeHosts(AddHost(report, h.mac, h.ip, h.flags), hosts \ {h})

Merge(report, other) ==
    AddServices(AddPorts(MergeHosts(report, other.hosts), other.ports), other.services)

SockAddr(ip, port) == [ip |-> ip, port |-> port]

RECURSIVE SortPorts(_)
SortPorts(ports) ==
    IF ports = {} THEN <<>>
    ELSE LET p == CHOOSE x \in ports : \A y \in ports :
                     x.mac < y.mac \/ (x.mac = y.mac /\ x.port <= y.port)
         IN  <<[mac |-> p.mac, addr |-> SockAddr(p.ip, p.port)]>> \o SortPorts(ports \ {p})

SocketAddrs(report) == SortPorts(report.ports)

\* ------------------------------------------------------- load_rtsp_paths
\* The path file: whether File::open succeeds, and its lines, each of which
\* reads as text or fails with an IO error.
Line(text)  == [ok |-> TRUE, text |-> text]
BadLine     == [ok |-> FALSE, text |-> <<>>]
StartsWithHash(text) == Len(text) > 0 /\ text[1] = "#"

RECURSIVE ReadLines(_, _)
ReadLines(lines, acc) ==
    IF lines = <<>> THEN Ok(acc)
    ELSE IF ~Head(lines).ok THEN Err("IO error")
    ELSE IF ~StartsWithHash(Head(lines).text)
         THEN ReadLines(Tail(lines), Append(acc, Head(lines).text))
         ELSE ReadLines(Tail(lines), acc)

LoadRtspPaths(file) ==
    IF ~file.open THEN Err("IO error") ELSE ReadLines(file.lines, <<>>)

\* ----------------------------------------------------------- environment
\* The hosts of the scanned networks, the ports that can be open on them,
\* the path files the run can find and the answers a device gives.
NetHosts == {[mac |-> m, ip |-> 100 + m] : m \in 1..MaxMacs}
EnvPorts == {PortCandidates[i] : i \in 1..NumPorts}
Endpoints == {[mac |-> h.mac, ip |-> h.ip, port |-> p] : h \in NetHosts, p \in EnvPorts}
EnvLines == <<Line(P11), Line(Comment), Line(P1), Line(P12), Line(P1), Line(P11)>>
PathFiles ==
    {[open |-> FALSE, lines |-> <<>>]}
    \cup {[open |-> TRUE, lines |-> SubSeq(EnvLines, 1, n)] : n \in 0..(MaxPaths + 1)}
    \cup {[open |-> TRUE, lines |-> <<Line(P11), BadLine>>]}
EnvResponses ==
    { ClientFailure,
      DescribeFailure,
      Response(TRUE, TRUE, NoHeader, 404, BodyEmpty),
      Response(TRUE, TRUE, NoHeader, 401, BodyEmpty),
      Response(TRUE, TRUE, NoHeader, 200, BodyH264),
      Response(TRUE, TRUE, NoHeader, 200, BodyJpeg),
      Response(TRUE, TRUE, HipcamA, 200, BodyH264) }

RECURSIVE SeqsUpTo(_, _)
SeqsUpTo(S, n) ==
    IF n = 0 THEN {<<>>}
    ELSE LET shorter == SeqsUpTo(S, n - 1)
         IN  shorter \cup {Append(q, x) : q \in shorter, x \in S}
PathLists == SeqsUpTo(PathNames, MaxPaths)
ProbeLists == SeqsUpTo(PathNames, MaxProbes)

\* The session descriptions a device can send: up to MaxMedia media
\* descriptions of up to MaxAttrs attributes, the encoding names in several
\* spellings, and the answers that carry them.
Encodings == {EncH264, EncH264Rcdo, EncH264Svc, EncMp4vEs, EncMpeg4Generic,
              EncLowerH264, EncMixedMp4vEs, EncLowerMpeg4, EncJpeg, EncH265}
CodecAttrs == {Attr(TRUE, e) : e \in Encodings} \cup {Attr(FALSE, EncH264)}
CodecMedia == {Media(t, a) : t \in {"Video", "Audio"}, a \in SeqsUpTo(CodecAttrs, MaxAttrs)}
CodecBodies == {BodyGarbage} \cup {Sdp(TRUE, m) : m \in SeqsUpTo(CodecMedia, MaxMedia)}
CodecResponses ==
    {Response(TRUE, TRUE, s, 200, b) : s \in {NoHeader, HipcamA}, b \in CodecBodies}

\* ----------------------------------------------------------------- state
VARIABLES
    pc,        \* where the thread running find_rtsp_streams is
    idx,       \* position of its current for loop
    devs,      \* number of devices of EthernetDevice::list()
    open,      \* the (host, port) pairs that accept TCP connections
    dw,        \* find_services worker threads, one per device
    report,    \* the aggregate ScanReport of find_rtsp_streams
    cw,        \* is_rtsp_service worker threads of find_rtsp_services
    res,       \* the list find_rtsp_services collects
    paths,     \* the loaded path list
    pw,        \* find_rtsp_paths worker threads
    services,  \* the services collected from the joined path workers
    result,    \* what find_rtsp_streams returned
    file,      \* history: the path file load_rtsp_paths found
    resighted  \* history: a merged fragment carried an open port record
               \* that an earlier fragment had already brought

vars == <<pc, idx, devs, open, dw, report, cw, res, paths, pw, services, result, file, resighted>>

NoResult == [ok |-> FALSE, err |-> "not returned"]
NoFile   == [open |-> FALSE, lines |-> <<>>, read |-> FALSE]
NoLast   == [path |-> <<>>, resp |-> ClientFailure, status |-> "none"]

\* A find_services thread: where it is and the fragment it builds; as
\* history, the scans it has invoked, the macs each host scan found and the
\* hosts it handed to the port scan.
DevWorker(st, rep) ==
    [state |-> st, report |-> rep, calls |-> <<>>, arp |-> {}, icmp |-> {}, tcp_hosts |-> {}]
Macs(found) == {h.mac : h \in found}
Call(scan, ok) == [scan |-> scan, ok |-> ok]
ConfirmWorker(mac, addr) ==
    [mac |-> mac, addr |-> addr, state |-> "running", rtsp |-> FALSE, options |-> "none"]
PathWorker(mac, addr) ==
    [mac |-> mac, addr |-> addr, state |-> "running", i |-> 1,
     ok |-> <<>>, unsupported |-> <<>>, locked |-> FALSE,
     statuses |-> <<>>, last |-> NoLast, result |-> <<>>]

Finished == {"ok", "err", "panicked"}
DevRunning == {"arp", "icmp", "tcp"}

Init ==
    /\ pc = "spawn_dev"
    /\ idx = 1
    /\ devs \in 0..NumDevs
    /\ open \in {W \in SUBSET Endpoints : Cardinality(W) <= MaxOpen}
    /\ dw = [d \in 1..devs |-> DevWorker("idle", ScanReportNew)]
    /\ report = ScanReportNew
    /\ cw = <<>>
    /\ res = <<>>
    /\ paths = <<>>
    /\ pw = <<>>
    /\ services = <<>>
    /\ result = NoResult
    /\ file = NoFile
    /\ resighted = FALSE

Return(r) ==
    /\ result' = r
    /\ pc' = "done"

\* ------------------------------------------ stage 1: find_services workers
\* find_rtsp_streams, first loop: thread::spawn of one worker per device.
SpawnDev ==
    /\ pc = "spawn_dev"
    /\ idx <= devs
    /\ dw' = [dw EXCEPT ![idx].state = "arp"]
    /\ idx' = idx + 1
    /\ UNCHANGED <<pc, devs, open, report, cw, res, paths, pw, services, result, file, resighted>>

SpawnDevDone ==
    /\ pc = "spawn_dev"
    /\ idx > devs
    /\ pc' = "join_dev"
    /\ idx' = 1
    /\ UNCHANGED <<devs, open, dw, report, cw, res, paths, pw, services, result, file, resighted>>

\* find_services: Ipv4ArpScanner::scan_device and the add_host loop.
DevArp(d) ==
    /\ dw[d].state = "arp"
    /\ \E scan_ok \in BOOLEAN, found \in SUBSET NetHosts :
          dw' = [dw EXCEPT ![d] =
                    IF scan_ok
                    THEN [dw[d] EXCEPT !.state = "icmp",
                                       !.report = AddHosts(dw[d].report, found, {HINFO_FLAG_ARP}),
                                       !.calls = Append(dw[d].calls, Call("arp", TRUE)),
                                       !.arp = Macs(found)]
                    ELSE [DevWorker("err", ScanReportNew) EXCEPT
                                       !.calls = Append(dw[d].calls, Call("arp", FALSE))]]
    /\ UNCHANGED <<pc, idx, devs, open, report, cw, res, paths, pw, services, result, file, resighted>>

\* Variant: a failed ICMP scan is skipped over and the port scan still runs.
DevIcmpIgnoresFailure(d) ==
    /\ dw[d].state = "icmp"
    /\ \E scan_ok \in BOOLEAN, found \in SUBSET NetHosts :
          dw' = [dw EXCEPT ![d] =
                    IF scan_ok
                    THEN [dw[d] EXCEPT !.state = "tcp",
                                       !.report = AddHosts(dw[d].report, found, {HINFO_FLAG_ICMP}),
                                       !.calls = Append(dw[d].calls, Call("icmp", TRUE)),
                                       !.icmp = Macs(found)]
                    ELSE [dw[d] EXCEPT !.state = "tcp",
                                       !.calls = Append(dw[d].calls, Call("icmp", FALSE))]]
    /\ UNCHANGED <<pc, idx, devs, open, report, cw, res, paths, pw, services, result, file, resighted>>

\* Variant: the ICMP sightings are recorded with the ARP flag.
DevIcmpArpFlag(d) ==
    /\ dw[d].state = "icmp"
    /\ \E scan_ok \in BOOLEAN, found \in SUBSET NetHosts :
          dw' = [dw EXCEPT ![d] =
                    IF scan_ok
                    THEN [dw[d] EXCEPT !.state = "tcp",
                                       !.report = AddHosts(dw[d].report, found, {HINFO_FLAG_ARP}),
                                       !.calls = Append(dw[d].calls, Call("icmp", TRUE)),
                                       !.icmp = Macs(found)]
                    ELSE [DevWorker("err", ScanReportNew) EXCEPT
                                       !.calls = Append(dw[d].calls, Call("icmp", FALSE))]]
    /\ UNCHANGED <<pc, idx, devs, open, report, cw, res, paths, pw, services, result, file, resighted>>

\* find_services: IcmpScanner::scan_device and the add_host loop.
DevIcmp(d) ==
    /\ dw[d].state = "icmp"
    /\ \E scan_ok \in BOOLEAN, found \in SUBSET NetHosts :
          dw' = [dw EXCEPT ![d] =
                    IF scan_ok
                    THEN [dw[d] EXCEPT !.state = "tcp",
                                       !.report = AddHosts(dw[d].report, found, {HINFO_FLAG_ICMP}),
                                       !.calls = Append(dw[d].calls, Call("icmp", TRUE)),
                                       !.icmp = Macs(found)]
                    ELSE [DevWorker("err", ScanReportNew) EXCEPT
                                       !.calls = Append(dw[d].calls, Call("icmp", FALSE))]]
    /\ UNCHANGED <<pc, idx, devs, open, report, cw, res, paths, pw, services, result, file, resighted>>

\* find_services: find_open_ports over report.hosts() and the add_port loop.
DevTcp(d) ==
    /\ dw[d].state = "tcp"
    /\ LET hosts == {[mac |-> h.mac, ip |-> h.ip] : h \in dw[d].report.hosts}
           candidates == {e \in open : [mac |-> e.mac, ip |-> e.ip] \in hosts}
       IN  \E scan_ok \in BOOLEAN, found \in SUBSET candidates :
              dw' = [dw EXCEPT ![d] =
                        IF scan_ok
                        THEN [dw[d] EXCEPT !.state = "ok",
                                           !.report = AddPorts(dw[d].report, found),
                                           !.calls = Append(dw[d].calls, Call("tcp", TRUE)),
                                           !.tcp_hosts = hosts]
                        ELSE [DevWorker("err", ScanReportNew) EXCEPT
                                           !.calls = Append(dw[d].calls, Call("tcp", FALSE)),
                                           !.tcp_hosts = hosts]]
    /\ UNCHANGED <<pc, idx, devs, open, report, cw, res, paths, pw, services, result, file, resighted>>

\* A worker thread that terminates abnormally.
DevPanic(d) ==
    /\ dw[d].state \in DevRunning
    /\ dw' = [dw EXCEPT ![d] = [DevWorker("panicked", ScanReportNew) EXCEPT !.calls = dw[d].calls]]
    /\ UNCHANGED <<pc, idx, devs, open, report, cw, res, paths, pw, services, result, file, resighted>>

\* Variant: the loop takes a handle only once its worker has a fragment to
\* give.
JoinDevOnlyOk ==
    /\ pc = "join_dev"
    /\ idx <= devs
    /\ dw[idx].state = "ok"
    /\ report' = Merge(report, dw[idx].report)
    /\ idx' = idx + 1
    /\ UNCHANGED <<pc, result>>
    /\ dw' = [dw EXCEPT ![idx].state = "joined"]
    /\ resighted' = (resighted \/ (dw[idx].report.ports \cap report.ports # {}))
    /\ UNCHANGED <<devs, open, cw, res, paths, pw, services, file>>

\* Variant: a failed worker is skipped and the loop goes on to the next
\* handle.
JoinDevKeepGoing ==
    /\ pc = "join_dev"
    /\ idx <= devs
    /\ dw[idx].state \in Finished
    /\ report' = IF dw[idx].state = "ok" THEN Merge(report, dw[idx].report) ELSE report
    /\ idx' = idx + 1
    /\ UNCHANGED <<pc, result>>
    /\ dw' = IF dw[idx].state = "ok"
             THEN [dw EXCEPT ![idx].state = "joined"]
             ELSE dw
    /\ resighted' = (resighted \/ (dw[idx].state = "ok" /\ dw[idx].report.ports \cap report.ports # {}))
    /\ UNCHANGED <<devs, open, cw, res, paths, pw, services, file>>

\* find_rtsp_streams, second loop: handle.join() and report.merge.
JoinDev ==
    /\ pc = "join_dev"
    /\ idx <= devs
    /\ dw[idx].state \in Finished
    /\ IF dw[idx].state = "panicked"
       THEN /\ Return(Err("port scanner thread panicked"))
            /\ UNCHANGED <<idx, report>>
       ELSE IF dw[idx].state = "err"
       THEN /\ Return(Err("pcap error"))
            /\ UNCHANGED <<idx, report>>
       ELSE /\ report' = Merge(report, dw[idx].report)
            /\ idx' = idx + 1
            /\ UNCHANGED <<pc, result>>
    /\ dw' = IF dw[idx].state = "ok"
             THEN [dw EXCEPT ![idx].state = "joined"]
             ELSE dw
    /\ resighted' = (resighted \/ (dw[idx].state = "ok" /\ dw[idx].report.ports \cap report.ports # {}))
    /\ UNCHANGED <<devs, open, cw, res, paths, pw, services, file>>

\* Variant: the join loop stops one handle short.
JoinDevDoneEarly ==
    /\ pc = "join_dev"
    /\ idx >= devs
    /\ pc' = "spawn_rtsp"
    /\ idx' = 1
    /\ UNCHANGED <<devs, open, dw, report, cw, res, paths, pw, services, result, file, resighted>>

\* All device workers joined: find_rtsp_services(&report) is called.  The
\* history of the joined workers is dropped here.
JoinDevDone ==
    /\ pc = "join_dev"
    /\ idx > devs
    /\ pc' = "spawn_rtsp"
    /\ idx' = 1
    /\ dw' = [d \in DOMAIN dw |-> DevWorker("joined", ScanReportNew)]
    /\ UNCHANGED <<devs, open, report, cw, res, paths, pw, services, result, file, resighted>>

\* -------------------------------------- stage 2: is_rtsp_service workers
\* Variant: a failed OPTIONS request is propagated like a failed construction.
IsRtspServiceStrict(client_ok, options_ok) ==
    IF ~client_ok \/ ~options_ok THEN Err("RTSP client error") ELSE Ok(options_ok)

IsRtspService(client_ok, options_ok) ==
    IF ~client_ok THEN Err("RTSP client error") ELSE Ok(options_ok)

\* find_rtsp_services, first loop: one worker per socket address.
SpawnRtsp ==
    /\ pc = "spawn_rtsp"
    /\ idx <= Len(SocketAddrs(report))
    /\ LET s == SocketAddrs(report)[idx]
       IN  cw' = Append(cw, ConfirmWorker(s.mac, s.addr))
    /\ idx' = idx + 1
    /\ UNCHANGED <<pc, devs, open, dw, report, res, paths, pw, services, result, file, resighted>>

SpawnRtspDone ==
    /\ pc = "spawn_rtsp"
    /\ idx > Len(SocketAddrs(report))
    /\ pc' = "join_rtsp"
    /\ idx' = 1
    /\ UNCHANGED <<devs, open, dw, report, cw, res, paths, pw, services, result, file, resighted>>

\* The worker body: (mac, addr, is_rtsp_service(addr)).
ConfirmRun(k) ==
    /\ cw[k].state = "running"
    /\ \E client_ok \in BOOLEAN, options_ok \in BOOLEAN :
          LET r == IsRtspService(client_ok, options_ok)
          IN  cw' = [cw EXCEPT ![k].state = IF r.ok THEN "ok" ELSE "err",
                               ![k].rtsp = IF r.ok THEN r.val ELSE FALSE,
                               ![k].options = IF ~client_ok THEN "none"
                                              ELSE IF options_ok THEN "ok" ELSE "failed"]
    /\ UNCHANGED <<pc, idx, devs, open, dw, report, res, paths, pw, services, result, file, resighted>>

ConfirmPanic(k) ==
    /\ cw[k].state = "running"
    /\ cw' = [cw EXCEPT ![k].state = "panicked"]
    /\ UNCHANGED <<pc, idx, devs, open, dw, report, res, paths, pw, services, result, file, resighted>>

\* Variant: a worker's error is taken as "not an RTSP service".
JoinRtspIgnoreErr ==
    /\ pc = "join_rtsp"
    /\ idx <= Len(cw)
    /\ cw[idx].state \in Finished
    /\ IF cw[idx].state = "panicked"
       THEN /\ Return(Err("RTSP service testing thread panicked"))
            /\ UNCHANGED <<idx, res>>
       ELSE /\ res' = IF cw[idx].state = "ok" /\ cw[idx].rtsp
                      THEN Append(res, [mac |-> cw[idx].mac, addr |-> cw[idx].addr])
                      ELSE res
            /\ idx' = idx + 1
            /\ UNCHANGED <<pc, result>>
    /\ cw' = IF cw[idx].state = "ok"
             THEN [cw EXCEPT ![idx].state = "joined", ![idx].rtsp = FALSE]
             ELSE cw
    /\ UNCHANGED <<devs, open, dw, report, paths, pw, services, file, resighted>>

\* find_rtsp_services, second loop: handle.join(), try!(rtsp), res.push.
JoinRtsp ==
    /\ pc = "join_rtsp"
    /\ idx <= Len(cw)
    /\ cw[idx].state \in Finished
    /\ IF cw[idx].state = "panicked"
       THEN /\ Return(Err("RTSP service testing thread panicked"))
            /\ UNCHANGED <<idx, res>>
       ELSE IF cw[idx].state = "err"
       THEN /\ Return(Err("RTSP client error"))
            /\ UNCHANGED <<idx, res>>
       ELSE /\ res' = IF cw[idx].rtsp
                      THEN Append(res, [mac |-> cw[idx].mac, addr |-> cw[idx].addr])
                      ELSE res
            /\ idx' = idx + 1
            /\ UNCHANGED <<pc, result>>
    /\ cw' = IF cw[idx].state = "ok"
             THEN [cw EXCEPT ![idx].state = "joined", ![idx].rtsp = FALSE]
             ELSE cw
    /\ UNCHANGED <<devs, open, dw, report, paths, pw, services, file, resighted>>

\* find_rtsp_services returns Ok(res).
JoinRtspDone ==
    /\ pc = "join_rtsp"
    /\ idx > Len(cw)
    /\ pc' = "load_paths"
    /\ UNCHANGED <<idx, devs, open, dw, report, cw, res, paths, pw, services, result, file, resighted>>

\* find_rtsp_streams: try!(load_rtsp_paths(RTSP_PATH_FILE)).
LoadPaths ==
    /\ pc = "load_paths"
    /\ \E f \in PathFiles :
          LET r == LoadRtspPaths(f)
          IN  /\ file' = [open |-> f.open, lines |-> f.lines, read |-> TRUE]
              /\ IF r.ok
                 THEN /\ paths' = r.val
                      /\ pc' = "spawn_path"
                      /\ idx' = 1
                      /\ UNCHANGED result
                 ELSE /\ Return(Err(r.err))
                      /\ UNCHANGED <<paths, idx>>
    /\ UNCHANGED <<devs, open, dw, report, cw, res, pw, services, resighted>>

\* --------------------------------------- stage 3: find_rtsp_paths workers
\* find_rtsp_streams, third loop: one worker per confirmed RTSP service.
SpawnPath ==
    /\ pc = "spawn_path"
    /\ idx <= Len(res)
    /\ pw' = Append(pw, PathWorker(res[idx].mac, res[idx].addr))
    /\ idx' = idx + 1
    /\ UNCHANGED <<pc, devs, open, dw, report, cw, res, paths, services, result, file, resighted>>

SpawnPathDone ==
    /\ pc = "spawn_path"
    /\ idx > Len(res)
    /\ pc' = "join_path"
    /\ idx' = 1
    /\ UNCHANGED <<devs, open, dw, report, cw, res, paths, pw, services, result, file, resighted>>

MapRTSP(mac, addr, ps)        == [n \in 1..Len(ps) |-> RTSP(mac, addr, ps[n])]
MapUnsupported(mac, addr, ps) == [n \in 1..Len(ps) |-> UnsupportedRTSP(mac, addr, ps[n])]

Kinds(svcs, kind) == {n \in DOMAIN svcs : svcs[n].kind = kind}

\* Variants of the reduction with one step changed.
ReduceServicesNoClear(mac, addr, ok, unsupported, locked, npaths) ==
    LET res1 == MapRTSP(mac, addr, ok) \o MapUnsupported(mac, addr, unsupported)
        res3 == IF locked THEN Append(res1, LockedRTSP(mac, addr)) ELSE res1
    IN  IF res3 = <<>> THEN <<UnknownRTSP(mac, addr)>> ELSE res3

ReduceServicesLockedFirst(mac, addr, ok, unsupported, locked, npaths) ==
    LET res1 == MapRTSP(mac, addr, ok) \o MapUnsupported(mac, addr, unsupported)
        res2 == IF locked THEN Append(res1, LockedRTSP(mac, addr)) ELSE res1
        res3 == IF Len(res2) = npaths THEN <<>> ELSE res2
    IN  IF res3 = <<>> THEN <<UnknownRTSP(mac, addr)>> ELSE res3

ReduceServicesNoFallback(mac, addr, ok, unsupported, locked, npaths) ==
    LET res1 == MapRTSP(mac, addr, ok) \o MapUnsupported(mac, addr, unsupported)
        res2 == IF Len(res1) = npaths THEN <<>> ELSE res1
    IN  IF locked THEN Append(res2, LockedRTSP(mac, addr)) ELSE res2

ReduceServicesUnsupportedFirst(mac, addr, ok, unsupported, locked, npaths) ==
    LET res1 == MapUnsupported(mac, addr, unsupported) \o MapRTSP(mac, addr, ok)
        res2 == IF Len(res1) = npaths THEN <<>> ELSE res1
        res3 == IF locked THEN Append(res2, LockedRTSP(mac, addr)) ELSE res2
    IN  IF res3 = <<>> THEN <<UnknownRTSP(mac, addr)>> ELSE res3

ReduceServicesFallbackUnlessOk(mac, addr, ok, unsupported, locked, npaths) ==
    LET res1 == MapRTSP(mac, addr, ok) \o MapUnsupported(mac, addr, unsupported)
        res2 == IF Len(res1) = npaths THEN <<>> ELSE res1
        res3 == IF locked THEN Append(res2, LockedRTSP(mac, addr)) ELSE res2
    IN  IF Kinds(res3, "RTSP") = {} THEN Append(res3, UnknownRTSP(mac, addr)) ELSE res3

ReduceServicesFallbackFirst(mac, addr, ok, unsupported, locked, npaths) ==
    LET res1 == MapRTSP(mac, addr, ok) \o MapUnsupported(mac, addr, unsupported)
        res2 == IF Len(res1) = npaths THEN <<>> ELSE res1
        res3 == IF res2 = <<>> THEN <<UnknownRTSP(mac, addr)>> ELSE res2
    IN  IF locked THEN Append(res3, LockedRTSP(mac, addr)) ELSE res3

\* find_rtsp_paths after its probe loop: the reduction to a Service list.
ReduceServices(mac, addr, ok, unsupported, locked, npaths) ==
    LET res1 == MapRTSP(mac, addr, ok) \o MapUnsupported(mac, addr, unsupported)
        res2 == IF Len(res1) = npaths THEN <<>> ELSE res1
        res3 == IF locked THEN Append(res2, LockedRTSP(mac, addr)) ELSE res2
    IN  IF res3 = <<>> THEN <<UnknownRTSP(mac, addr)>> ELSE res3

\* find_rtsp_paths, one iteration of the probe loop on worker record w:
\* Variant: a Locked path is also pushed onto the unsupported list.
ProbeStepLockedListed(w, path, resp) ==
    LET st == GetDescribeStatus(resp, path)
    IN  IF ~st.ok
        THEN [w EXCEPT !.state = "err"]
        ELSE [w EXCEPT
               !.i = w.i + 1,
               !.ok = IF st.val = "Ok" THEN Append(w.ok, path) ELSE w.ok,
               !.unsupported = IF st.val \in {"Unsupported", "Locked"}
                               THEN Append(w.unsupported, path)
                               ELSE w.unsupported,
               !.locked = IF st.val = "Locked" THEN TRUE ELSE w.locked]

\* try!(get_describe_status(addr, path)) and the match on its status.
ProbeStep(w, path, resp) ==
    LET st == GetDescribeStatus(resp, path)
    IN  IF ~st.ok
        THEN [w EXCEPT !.state = "err"]
        ELSE [w EXCEPT
               !.i = w.i + 1,
               !.ok = IF st.val = "Ok" THEN Append(w.ok, path) ELSE w.ok,
               !.unsupported = IF st.val = "Unsupported"
                               THEN Append(w.unsupported, path)
                               ELSE w.unsupported,
               !.locked = IF st.val = "Locked" THEN TRUE ELSE w.locked]

\* find_rtsp_paths, after the loop: build res, clear, locked marker,
\* fallback, Ok(res).
ReduceStep(w, npaths) ==
    [w EXCEPT !.state = "ok",
              !.result = ReduceServices(w.mac, w.addr, w.ok, w.unsupported, w.locked, npaths)]

\* find_rtsp_paths from the current position to its return, the device
\* answering the DESCRIBE for paths[n] with resps[n].
RECURSIVE RunPaths(_, _, _)
RunPaths(w, ps, resps) ==
    IF w.state # "running" THEN w
    ELSE IF w.i > Len(ps) THEN ReduceStep(w, Len(ps))
    ELSE RunPaths(ProbeStep(w, ps[w.i], resps[w.i]), ps, resps)

\* The worker body: find_rtsp_paths(mac, addr, &paths), run to its return.
PathRun(k) ==
    /\ pw[k].state = "running"
    /\ \E resps \in [1..Len(paths) -> EnvResponses] :
          pw' = [pw EXCEPT ![k] = RunPaths(pw[k], paths, resps)]
    /\ UNCHANGED <<pc, idx, devs, open, dw, report, cw, res, paths, services, result, file, resighted>>

\* The probe loop one iteration at a time, recording the status of every
\* probe and the last exchange.
PathProbeAny(k) ==
    /\ pw[k].state = "running"
    /\ pw[k].i <= Len(paths)
    /\ \E resp \in Responses :
          LET path == paths[pw[k].i]
              st   == GetDescribeStatus(resp, path)
          IN  pw' = [pw EXCEPT ![k] =
                  [ProbeStep(pw[k], path, resp) EXCEPT
                      !.statuses = IF st.ok THEN Append(pw[k].statuses, st.val) ELSE pw[k].statuses,
                      !.last = [path |-> path, resp |-> resp,
                                status |-> IF st.ok THEN st.val ELSE "none"]]]
    /\ UNCHANGED <<pc, idx, devs, open, dw, report, cw, res, paths, services, result, file, resighted>>

PathReduce(k) ==
    /\ pw[k].state = "running"
    /\ pw[k].i > Len(paths)
    /\ pw' = [pw EXCEPT ![k] = ReduceStep(pw[k], Len(paths))]
    /\ UNCHANGED <<pc, idx, devs, open, dw, report, cw, res, paths, services, result, file, resighted>>

PathPanic(k) ==
    /\ pw[k].state = "running"
    /\ pw' = [pw EXCEPT ![k].state = "panicked"]
    /\ UNCHANGED <<pc, idx, devs, open, dw, report, cw, res, paths, services, result, file, resighted>>

\* Variant: every joined worker's services go straight into the report.
JoinPathAddsToReport ==
    /\ pc = "join_path"
    /\ idx <= Len(pw)
    /\ pw[idx].state \in Finished
    /\ IF pw[idx].state = "panicked"
       THEN /\ Return(Err("path testing thread panicked"))
            /\ UNCHANGED <<idx, report>>
       ELSE IF pw[idx].state = "err"
       THEN /\ Return(Err("RTSP client error"))
            /\ UNCHANGED <<idx, report>>
       ELSE /\ report' = AddServices(report, pw[idx].result)
            /\ idx' = idx + 1
            /\ UNCHANGED <<pc, result>>
    /\ pw' = IF pw[idx].state = "ok"
             THEN [pw EXCEPT ![idx] = [PathWorker(pw[idx].mac, pw[idx].addr) EXCEPT
                                          !.state = "joined", !.result = pw[idx].result]]
             ELSE pw
    /\ UNCHANGED <<devs, open, dw, cw, res, paths, services, file, resighted>>

\* Variant: the loop takes whichever worker has finished, in completion
\* order, instead of the next handle in spawn order.
JoinPathAnyOrder ==
    /\ pc = "join_path"
    /\ idx <= Len(pw)
    /\ \E k \in DOMAIN pw :
          /\ pw[k].state \in Finished
          /\ IF pw[k].state = "panicked"
             THEN /\ Return(Err("path testing thread panicked"))
                  /\ UNCHANGED <<idx, services>>
             ELSE IF pw[k].state = "err"
             THEN /\ Return(Err("RTSP client error"))
                  /\ UNCHANGED <<idx, services>>
             ELSE /\ services' = services \o pw[k].result
                  /\ idx' = idx + 1
                  /\ UNCHANGED <<pc, result>>
          /\ pw' = IF pw[k].state = "ok"
                   THEN [pw EXCEPT ![k] = [PathWorker(pw[k].mac, pw[k].addr) EXCEPT
                                              !.state = "joined", !.result = pw[k].result]]
                   ELSE pw
    /\ UNCHANGED <<devs, open, dw, report, cw, res, paths, file, resighted>>

\* find_rtsp_streams, fourth loop: handle.join() and services.extend.
JoinPath ==
    /\ pc = "join_path"
    /\ idx <= Len(pw)
    /\ pw[idx].state \in Finished
    /\ IF pw[idx].state = "panicked"
       THEN /\ Return(Err("path testing thread panicked"))
            /\ UNCHANGED <<idx, services>>
       ELSE IF pw[idx].state = "err"
       THEN /\ Return(Err("RTSP client error"))
            /\ UNCHANGED <<idx, services>>
       ELSE /\ services' = services \o pw[idx].result
            /\ idx' = idx + 1
            /\ UNCHANGED <<pc, result>>
    /\ pw' = IF pw[idx].state = "ok"
             THEN [pw EXCEPT ![idx] = [PathWorker(pw[idx].mac, pw[idx].addr) EXCEPT
                                          !.state = "joined", !.result = pw[idx].result]]
             ELSE pw
    /\ UNCHANGED <<devs, open, dw, report, cw, res, paths, file, resighted>>

\* find_rtsp_streams, last loop and return: report.add_service for every
\* collected service, then Ok(report).
Finish ==
    /\ pc = "join_path"
    /\ idx > Len(pw)
    /\ report' = AddServices(report, services)
    /\ Return(Ok(report'))
    /\ services' = <<>>
    /\ UNCHANGED <<idx, devs, open, dw, cw, res, paths, pw, file, resighted>>

\* ---------------------------------------------------------- specification
Next ==
    \/ SpawnDev
    \/ SpawnDevDone
    \/ \E d \in DOMAIN dw : DevArp(d)
    \/ \E d \in DOMAIN dw : DevIcmp(d)
    \/ \E d \in DOMAIN dw : DevTcp(d)
    \/ \E d \in DOMAIN dw : DevPanic(d)
    \/ JoinDev
    \/ JoinDevDone
    \/ SpawnRtsp
    \/ SpawnRtspDone
    \/ \E k \in DOMAIN cw : ConfirmRun(k)
    \/ \E k \in DOMAIN cw : ConfirmPanic(k)
    \/ JoinRtsp
    \/ JoinRtspDone
    \/ LoadPaths
    \/ SpawnPath
    \/ SpawnPathDone
    \/ \E k \in DOMAIN pw : PathRun(k)
    \/ \E k \in DOMAIN pw : PathPanic(k)
    \/ JoinPath
    \/ Finish

Spec == Init /\ [][Next]_vars

\* The pipeline with scheduling: whenever some thread can take a step, a
\* step is eventually taken.  Every collaborator call returns (each worker
\* action is one or more such calls), and a thread that can run is not
\* starved.  Scheduled is WF_vars(Next) written out: every step of a
\* behaviour that changes vars is a Next step, so <<Next>>_vars steps are
\* the steps that change vars.
InitLive == Init /\ devs <= LiveDevs
Scheduled == ([]<><<TRUE>>_vars) \/ ([]<>~(ENABLED <<Next>>_vars))
SpecLive == InitLive /\ [][Next]_vars /\ Scheduled

\* One call of find_rtsp_paths for an arbitrary path list, the device
\* answering each DESCRIBE with any response.
TheEndpoint == CHOOSE e \in Endpoints : \A other \in Endpoints :
                   e.mac < other.mac \/ (e.mac = other.mac /\ e.port <= other.port)
TheMac  == TheEndpoint.mac
TheAddr == SockAddr(TheEndpoint.ip, TheEndpoint.port)

InitPaths ==
    /\ pc = "join_path"
    /\ idx = 1
    /\ devs = 1
    /\ open = {TheEndpoint}
    /\ dw = [d \in 1..1 |-> DevWorker("joined", ScanReportNew)]
    /\ report = AddPort(AddHost(ScanReportNew, TheMac, TheEndpoint.ip, {HINFO_FLAG_ARP}),
                        TheMac, TheEndpoint.ip, TheEndpoint.port)
    /\ cw = <<[ConfirmWorker(TheMac, TheAddr) EXCEPT !.state = "joined", !.options = "ok"]>>
    /\ res = <<[mac |-> TheMac, addr |-> TheAddr]>>
    /\ paths \in PathLists
    /\ file = [open |-> TRUE, lines |-> [n \in 1..Len(paths) |-> Line(paths[n])], read |-> TRUE]
    /\ resighted = FALSE
    /\ pw = <<PathWorker(TheMac, TheAddr)>>
    /\ services = <<>>
    /\ result = NoResult

NextPaths ==
    \/ \E k \in DOMAIN pw : PathProbeAny(k)
    \/ \E k \in DOMAIN pw : PathReduce(k)

SpecPaths == InitPaths /\ [][NextPaths]_vars

\* find_rtsp_paths over longer path lists, the device answering every
\* DESCRIBE with one of the representative answers; the statuses of the
\* probes are recorded.
InitClassify ==
    /\ pc = "join_path"
    /\ idx = 1
    /\ devs = 1
    /\ open = {TheEndpoint}
    /\ dw = [d \in 1..1 |-> DevWorker("joined", ScanReportNew)]
    /\ report = AddPort(AddHost(ScanReportNew, TheMac, TheEndpoint.ip, {HINFO_FLAG_ARP}),
                        TheMac, TheEndpoint.ip, TheEndpoint.port)
    /\ cw = <<[ConfirmWorker(TheMac, TheAddr) EXCEPT !.state = "joined", !.options = "ok"]>>
    /\ res = <<[mac |-> TheMac, addr |-> TheAddr]>>
    /\ paths \in ProbeLists
    /\ file = [open |-> TRUE, lines |-> [n \in 1..Len(paths) |-> Line(paths[n])], read |-> TRUE]
    /\ resighted = FALSE
    /\ pw = <<PathWorker(TheMac, TheAddr)>>
    /\ services = <<>>
    /\ result = NoResult

PathProbeStatus(k) ==
    /\ pw[k].state = "running"
    /\ pw[k].i <= Len(paths)
    /\ \E resp \in EnvResponses :
          LET path == paths[pw[k].i]
              st   == GetDescribeStatus(resp, path)
          IN  pw' = [pw EXCEPT ![k] =
                  [ProbeStep(pw[k], path, resp) EXCEPT
                      !.statuses = IF st.ok THEN Append(pw[k].statuses, st.val) ELSE pw[k].statuses]]
    /\ UNCHANGED <<pc, idx, devs, open, dw, report, cw, res, paths, services, result, file, resighted>>

NextClassify ==
    \/ \E k \in DOMAIN pw : PathProbeStatus(k)
    \/ \E k \in DOMAIN pw : PathReduce(k)

SpecClassify == InitClassify /\ [][NextClassify]_vars

\* One DESCRIBE for one path, answered 200 with any of the session
\* descriptions; the exchange is recorded.
InitCodec ==
    /\ pc = "join_path"
    /\ idx = 1
    /\ devs = 1
    /\ open = {TheEndpoint}
    /\ dw = [d \in 1..1 |-> DevWorker("joined", ScanReportNew)]
    /\ report = AddPort(AddHost(ScanReportNew, TheMac, TheEndpoint.ip, {HINFO_FLAG_ARP}),
                        TheMac, TheEndpoint.ip, TheEndpoint.port)
    /\ cw = <<[ConfirmWorker(TheMac, TheAddr) EXCEPT !.state = "joined", !.options = "ok"]>>
    /\ res = <<[mac |-> TheMac, addr |-> TheAddr]>>
    /\ paths \in {<<P1>>, <<P11>>}
    /\ file = [open |-> TRUE, lines |-> [n \in 1..Len(paths) |-> Line(paths[n])], read |-> TRUE]
    /\ resighted = FALSE
    /\ pw = <<PathWorker(TheMac, TheAddr)>>
    /\ services = <<>>
    /\ result = NoResult

PathProbeCodec(k) ==
    /\ pw[k].state = "running"
    /\ pw[k].i <= Len(paths)
    /\ \E resp \in CodecResponses :
          LET path == paths[pw[k].i]
              st   == GetDescribeStatus(resp, path)
          IN  pw' = [pw EXCEPT ![k] =
                  [ProbeStep(pw[k], path, resp) EXCEPT
                      !.statuses = IF st.ok THEN Append(pw[k].statuses, st.val) ELSE pw[k].statuses,
                      !.last = [path |-> path, resp |-> resp,
                                status |-> IF st.ok THEN st.val ELSE "none"]]]
    /\ UNCHANGED <<pc, idx, devs, open, dw, report, cw, res, paths, services, result, file, resighted>>

NextCodec ==
    \/ \E k \in DOMAIN pw : PathProbeCodec(k)
    \/ \E k \in DOMAIN pw : PathReduce(k)

SpecCodec == InitCodec /\ [][NextCodec]_vars

\* ================================================================ claims
Returned(k)  == pw[k].state = "ok"
AllIn(st, S) == \A n \in DOMAIN st : st[n] \in S

\* C1 (ambiguous-server law): when every one of the N probes of a
\* find_rtsp_paths call classified as Ok or Unsupported, the returned list
\* is exactly the single record UnknownRTSP(mac, addr): no RTSP and no
\* UnsupportedRTSP record is left.
C1_AmbiguousServer ==
    \A k \in DOMAIN pw :
        (Returned(k) /\ Len(pw[k].statuses) = Len(paths)
                     /\ AllIn(pw[k].statuses, {"Ok", "Unsupported"}))
        => /\ pw[k].result = <<UnknownRTSP(pw[k].mac, pw[k].addr)>>
           /\ Kinds(pw[k].result, "RTSP") = {}
           /\ Kinds(pw[k].result, "UnsupportedRTSP") = {}

C1_Witness ==
    \E k \in DOMAIN pw :
        /\ Returned(k)
        /\ Len(paths) = 2
        /\ pw[k].statuses = <<"Ok", "Unsupported">>
        /\ pw[k].ok # <<>>
        /\ pw[k].result = <<UnknownRTSP(pw[k].mac, pw[k].addr)>>

\* C2 (locked-precedence law): when at least one probed path classified as
\* Locked, the returned list holds exactly one LockedRTSP record, whatever
\* the other paths classified as.
C2_LockedPrecedence ==
    \A k \in DOMAIN pw :
        (Returned(k) /\ \E n \in DOMAIN pw[k].statuses : pw[k].statuses[n] = "Locked")
        => Cardinality(Kinds(pw[k].result, "LockedRTSP")) = 1

C2_Witness ==
    \E k \in DOMAIN pw :
        /\ Returned(k)
        /\ pw[k].statuses = <<"Locked", "Locked">>
        /\ Cardinality(Kinds(pw[k].result, "LockedRTSP")) = 1

\* C3 (fallback law): when no probed path classified as Ok, Unsupported or
\* Locked (every status is Error or NotFound, or the path list is empty),
\* the returned list is exactly the single record UnknownRTSP(mac, addr).
C3_Fallback ==
    \A k \in DOMAIN pw :
        (Returned(k) /\ Len(pw[k].statuses) = Len(paths)
                     /\ AllIn(pw[k].statuses, {"Error", "NotFound"}))
        => pw[k].result = <<UnknownRTSP(pw[k].mac, pw[k].addr)>>

C3_Witness ==
    \E k \in DOMAIN pw :
        /\ Returned(k)
        /\ pw[k].statuses = <<"Error", "NotFound">>
        /\ pw[k].result = <<UnknownRTSP(pw[k].mac, pw[k].addr)>>

\* The bodies with a video section carrying an rtpmap of a recognized codec.
SupportedBodies == {BodyH264, BodyLowerH264, BodyMp4v}
QuirkApplies(l) == l.resp.server \in {HipcamA, HipcamB} /\ l.path \notin {P11, P12}
OrdinaryMapping(l) ==
    /\ l.resp.code = 404 => l.status = "NotFound"
    /\ l.resp.code = 401 => l.status = "Locked"
    /\ (l.resp.code = 200 /\ l.resp.body \in SupportedBodies) => l.status = "Ok"
    /\ (l.resp.code = 200 /\ l.resp.body \notin SupportedBodies) => l.status = "Unsupported"
    /\ l.resp.code \notin {404, 401, 200} => l.status = "Error"

\* C5 (DESCRIBE status mapping): when the DESCRIBE request succeeded and the
\* vendor-quirk override does not apply, the status is NotFound for 404,
\* Locked for 401, Ok for 200 with a supported video codec, Unsupported for
\* any other 200 and Error for every other code; it is one of the five
\* statuses.
C5_StatusMapping ==
    \A k \in DOMAIN pw :
        LET l == pw[k].last
        IN  (l.resp.client /\ l.resp.describe /\ ~QuirkApplies(l))
            => (OrdinaryMapping(l) /\ l.status \in DescribeStatus)

C5_Witness ==
    \E k \in DOMAIN pw :
        LET l == pw[k].last
        IN  /\ l.resp.client /\ l.resp.describe
            /\ l.resp.server = HipcamB /\ l.path = P12
            /\ l.resp.code = 401
            /\ l.status = "Locked"

\* C6 (vendor-quirk override): when the Server header is one of the Hipcam
\* signatures and the probed path is neither "/11" nor "/12", the status is
\* NotFound for every status code; for the same server and path "/11" or
\* "/12" the ordinary status-code mapping applies.
C6_VendorQuirk ==
    \A k \in DOMAIN pw :
        LET l == pw[k].last
        IN  (l.resp.client /\ l.resp.describe /\ l.resp.server \in {HipcamA, HipcamB})
            => IF l.path \notin {P11, P12}
               THEN l.status = "NotFound"
               ELSE OrdinaryMapping(l)

C6_Witness ==
    \E k \in DOMAIN pw :
        LET l == pw[k].last
        IN  /\ l.resp.client /\ l.resp.describe
            /\ l.resp.server = HipcamA /\ l.path = P1
            /\ l.resp.code = 200 /\ l.resp.body = BodyH264
            /\ l.status = "NotFound"

Failed == {"err", "panicked"}
EndpointOf(w) == [mac |-> w.mac, addr |-> w.addr]
EndpointsOf(ws) == [n \in 1..Len(ws) |-> EndpointOf(ws[n])]
OptionsOk(w) == w.options = "ok"
CountFor(svcs, kind, e) ==
    Cardinality({n \in DOMAIN svcs : svcs[n].kind = kind /\ EndpointOf(svcs[n]) = e})

C7_FatalNoReport ==
    result.ok =>
        /\ \A d \in DOMAIN dw : dw[d].state \notin Failed
        /\ \A k \in DOMAIN cw : cw[k].state \notin Failed
        /\ \A k \in DOMAIN pw : pw[k].state \notin Failed
        /\ file.read /\ file.open
        /\ \A n \in DOMAIN file.lines : file.lines[n].ok

C7_Witness ==
    /\ pc = "done"
    /\ ~result.ok
    /\ Len(cw) = 2
    /\ cw[1].state = "joined"
    /\ cw[2].state = "err"

\* C8 (confirmation absorbs request failures): a failed OPTIONS request
\* makes is_rtsp_service return Ok(false) and is no error; a failed client
\* construction makes find_rtsp_services and the run fail; the endpoints
\* handed to the path-classifier workers are exactly those whose OPTIONS
\* request succeeded.
C8_Confirmation ==
    /\ \A k \in DOMAIN cw :
          cw[k].options = "failed" => (cw[k].state \in {"ok", "joined"} /\ ~cw[k].rtsp)
    /\ \A k \in DOMAIN cw :
          cw[k].state = "err" =>
             (cw[k].options = "none" /\ ~result.ok /\ pc \in {"spawn_rtsp", "join_rtsp", "done"})
    /\ (pc = "join_path" \/ result.ok) => EndpointsOf(pw) = EndpointsOf(SelectSeq(cw, OptionsOk))

C8_Witness ==
    /\ pc = "join_path"
    /\ Len(cw) = 2
    /\ cw[1].options = "failed"
    /\ cw[2].options = "ok"
    /\ Len(pw) = 1
    /\ EndpointOf(pw[1]) = EndpointOf(cw[2])

\* C9 (stage barrier): no RTSP-confirmation worker is spawned while a
\* host-discovery/port-probe worker is still running, and no
\* path-classifier worker is spawned while an RTSP-confirmation worker is
\* still running.
C9_StageBarrier ==
    [][ /\ Len(cw') > Len(cw) => \A d \in DOMAIN dw : dw[d].state \notin DevRunning
        /\ Len(pw') > Len(pw) => \A k \in DOMAIN cw : cw[k].state # "running" ]_vars

C9_Witness ==
    /\ devs = 2
    /\ Len(cw) = 2
    /\ Len(pw) = 2
    /\ pc = "join_path"

AnyWorkerRunning ==
    \/ \E d \in DOMAIN dw : dw[d].state \in DevRunning
    \/ \E k \in DOMAIN cw : cw[k].state = "running"
    \/ \E k \in DOMAIN pw : pw[k].state = "running"

\* C10 as stated: the report is never merged into or added to while a
\* worker is still running.
C10_Original ==
    [][report' # report => ~AnyWorkerRunning]_vars

\* C10 (amended): the report changes only in a step of the thread running
\* find_rtsp_streams; a fragment is merged only when the worker that built
\* it has completed and is being joined (later workers of the stage may
\* still be running), and services are added only after every
\* path-classifier worker has been joined.
C10_ReportMutation ==
    [][report' # report =>
          \/ /\ pc = "join_dev" /\ idx \in DOMAIN dw
             /\ dw[idx].state = "ok" /\ dw'[idx].state = "joined"
             /\ report' = Merge(report, dw[idx].report)
          \/ /\ pc = "join_path" /\ pc' = "done"
             /\ ~AnyWorkerRunning
             /\ \A k \in DOMAIN pw : pw[k].state = "joined"]_vars

C10_Witness ==
    /\ devs = 2
    /\ pc = "join_dev"
    /\ idx = 2
    /\ report.ports # {}
    /\ dw[2].state \in DevRunning

\* ---------------------------------------------------------------- C11
\* What the in-order joins compute, written down from the workers alone.
RECURSIVE MergeFragments(_, _)
MergeFragments(ws, n) ==
    IF n = 0 THEN ScanReportNew ELSE Merge(MergeFragments(ws, n - 1), ws[n].report)

RECURSIVE ConcatResults(_, _)
ConcatResults(ws, n) ==
    IF n = 0 THEN <<>> ELSE ConcatResults(ws, n - 1) \o ws[n].result

FirstFailed(ws) == CHOOSE k \in DOMAIN ws :
                      /\ ws[k].state \in Failed
                      /\ \A j \in DOMAIN ws : ws[j].state \in Failed => k <= j
AnyFailed(ws) == \E k \in DOMAIN ws : ws[k].state \in Failed

\* The error of a failed run: that of the first failed worker in spawn
\* order, the stages taken in their order.
ExpectedError ==
    IF AnyFailed(dw)
    THEN IF dw[FirstFailed(dw)].state = "panicked"
         THEN Err("port scanner thread panicked") ELSE Err("pcap error")
    ELSE IF AnyFailed(cw)
    THEN IF cw[FirstFailed(cw)].state = "panicked"
         THEN Err("RTSP service testing thread panicked") ELSE Err("RTSP client error")
    ELSE IF file.read /\ ~LoadRtspPaths(file).ok
    THEN Err("IO error")
    ELSE IF pw[FirstFailed(pw)].state = "panicked"
         THEN Err("path testing thread panicked") ELSE Err("RTSP client error")

\* C11 (determinism of the pipeline): every stage joins its workers in
\* spawn order, so the merged report, the list of confirmed services, the
\* collected service records and the error of a failed run depend only on
\* the spawn order and on what each worker returned, never on the order in
\* which the workers finished.
C11_Deterministic ==
    /\ pc = "join_dev" => report = MergeFragments(dw, idx - 1)
    /\ pc = "join_rtsp" =>
          /\ EndpointsOf(cw) = SocketAddrs(report)
          /\ res = EndpointsOf(SelectSeq(SubSeq(cw, 1, idx - 1), OptionsOk))
    /\ pc = "join_path" =>
          /\ EndpointsOf(pw) = res
          /\ services = ConcatResults(pw, idx - 1)
    /\ result.ok =>
          /\ result.val = report
          /\ report.services = ConcatResults(pw, Len(pw))
    /\ (pc = "done" /\ ~result.ok) => result = ExpectedError

\* Two path workers returned different lists and the successful run holds
\* them in spawn order.
C11_Witness ==
    /\ result.ok
    /\ Len(pw) = 2
    /\ pw[1].result # pw[2].result
    /\ Kinds(pw[1].result, "RTSP") # {}
    /\ Kinds(pw[2].result, "LockedRTSP") # {}
    /\ report.services = pw[1].result \o pw[2].result

\* ---------------------------------------------------------------- C12
UniqueMacs(rep) == \A h1, h2 \in rep.hosts : h1.mac = h2.mac => h1 = h2
FlagsOf(rep, m) == UNION {h.flags : h \in {x \in rep.hosts : x.mac = m}}
SightedFlags(w, m) ==
    (IF m \in w.arp THEN {HINFO_FLAG_ARP} ELSE {}) \cup
    (IF m \in w.icmp THEN {HINFO_FLAG_ICMP} ELSE {})
AllMacs == {h.mac : h \in NetHosts}

\* C12 (host merge by mac): the report and every fragment hold at most one
\* host entry per mac address; the flags of a mac in a fragment are the
\* methods by which its worker sighted it, and the flags of a mac in the
\* report are the union of the methods by which the workers joined so far
\* sighted it.
C12_HostMerge ==
    /\ UniqueMacs(report)
    /\ \A h \in report.hosts : h.flags # {}
    /\ \A d \in DOMAIN dw :
          dw[d].state \in {"icmp", "tcp", "ok", "joined"} =>
             /\ UniqueMacs(dw[d].report)
             /\ \A m \in AllMacs : FlagsOf(dw[d].report, m) = SightedFlags(dw[d], m)
    /\ pc = "join_dev" =>
          \A m \in AllMacs :
             FlagsOf(report, m) = UNION {SightedFlags(dw[d], m) : d \in 1..(idx - 1)}

\* One mac was sighted by ARP only on the first interface and by ICMP only
\* on the second, another by both methods on one interface; both fragments
\* are merged.
C12_Witness ==
    /\ devs = 2
    /\ pc = "join_dev"
    /\ idx = 3
    /\ \E m \in AllMacs :
          /\ SightedFlags(dw[1], m) = {HINFO_FLAG_ARP}
          /\ SightedFlags(dw[2], m) = {HINFO_FLAG_ICMP}
          /\ FlagsOf(report, m) = {HINFO_FLAG_ARP, HINFO_FLAG_ICMP}
    /\ \E m \in AllMacs :
          /\ SightedFlags(dw[1], m) = {HINFO_FLAG_ARP, HINFO_FLAG_ICMP}
          /\ SightedFlags(dw[2], m) = {}
    /\ Cardinality(report.hosts) = 2

\* ---------------------------------------------------------------- C13
CountIn(st, S) == Cardinality({n \in DOMAIN st : st[n] \in S})
PathsWith(ps, st, status) ==
    LET keep == {n \in DOMAIN st : st[n] = status}
        F[n \in 0..Len(st)] ==
            IF n = 0 THEN <<>>
            ELSE IF n \in keep THEN Append(F[n - 1], ps[n]) ELSE F[n - 1]
    IN  F[Len(st)]

\* C13 as stated: the endpoint of some worker has a run of find_rtsp_paths,
\* over some path list and some answers of the device, that clears a
\* non-empty RTSP/UnsupportedRTSP list in the ambiguous-server check and
\* then appends a LockedRTSP record to the cleared list.
C13_Original ==
    \E k \in DOMAIN pw, ps \in PathLists : \E resps \in [1..Len(ps) -> EnvResponses] :
        LET w == RunPaths(PathWorker(pw[k].mac, pw[k].addr), ps, resps)
        IN  /\ w.state = "ok"
            /\ Len(w.ok) + Len(w.unsupported) > 0
            /\ Len(w.ok) + Len(w.unsupported) = Len(ps)
            /\ Kinds(w.result, "LockedRTSP") # {}

\* C13 (locked marker and ambiguous-server check exclude each other): when
\* some path classified as Locked, fewer than N paths are Ok/Unsupported,
\* the check clears nothing and the returned list is the kept RTSP and
\* UnsupportedRTSP records followed by LockedRTSP; when the check clears a
\* non-empty list, no path was Locked and no LockedRTSP is returned.
C13_LockedKeepsList ==
    \A k \in DOMAIN pw :
        Returned(k) =>
          LET w  == pw[k]
              n  == CountIn(w.statuses, {"Ok", "Unsupported"})
              lk == CountIn(w.statuses, {"Locked"}) > 0
          IN  /\ lk => /\ n < Len(paths)
                       /\ w.result =
                            MapRTSP(w.mac, w.addr, PathsWith(paths, w.statuses, "Ok"))
                            \o MapUnsupported(w.mac, w.addr,
                                              PathsWith(paths, w.statuses, "Unsupported"))
                            \o <<LockedRTSP(w.mac, w.addr)>>
              /\ (n = Len(paths) /\ n > 0) =>
                     (~lk /\ Kinds(w.result, "LockedRTSP") = {})

\* One path was Ok and another Locked: the RTSP record is kept in front of
\* the locked marker.
C13_Witness ==
    \E k \in DOMAIN pw :
        /\ Returned(k)
        /\ pw[k].statuses = <<"Ok", "Locked">>
        /\ pw[k].result = <<RTSP(pw[k].mac, pw[k].addr, paths[1]), LockedRTSP(pw[k].mac, pw[k].addr)>>

\* ---------------------------------------------------------------- C14
NotUnknown(svc) == svc.kind # "UnknownRTSP"
ExpectedServices(w) ==
    MapRTSP(w.mac, w.addr, PathsWith(paths, w.statuses, "Ok"))
    \o MapUnsupported(w.mac, w.addr, PathsWith(paths, w.statuses, "Unsupported"))
    \o (IF CountIn(w.statuses, {"Locked"}) > 0 THEN <<LockedRTSP(w.mac, w.addr)>> ELSE <<>>)

\* C14 (content and order of a non-cleared result): when at least one of
\* the N probed paths is not Ok/Unsupported, the returned list is one RTSP
\* record per Ok path in probe order, then one UnsupportedRTSP record per
\* Unsupported path in probe order, then LockedRTSP iff some path was
\* Locked; NotFound and Error paths give no record, and UnknownRTSP is
\* present only when that list is empty.
C14_NonClearedResult ==
    \A k \in DOMAIN pw :
        (Returned(k) /\ CountIn(pw[k].statuses, {"Ok", "Unsupported"}) < Len(paths)) =>
          LET expected == ExpectedServices(pw[k])
          IN  /\ SelectSeq(pw[k].result, NotUnknown) = expected
              /\ expected # <<>> => pw[k].result = expected
              /\ CountIn(pw[k].statuses, {"Ok", "Unsupported"}) > 0
                    => Kinds(pw[k].result, "UnknownRTSP") = {}

\* The first path was Unsupported, the second Ok and the third Locked: the
\* RTSP record comes first, the locked marker last.
C14_Witness ==
    \E k \in DOMAIN pw :
        /\ Returned(k)
        /\ pw[k].statuses = <<"Unsupported", "Ok", "Locked">>
        /\ pw[k].result = <<RTSP(pw[k].mac, pw[k].addr, paths[2]),
                            UnsupportedRTSP(pw[k].mac, pw[k].addr, paths[1]),
                            LockedRTSP(pw[k].mac, pw[k].addr)>>

\* ---------------------------------------------------------------- C15
\* C15 (UnknownRTSP is a last resort): every list returned by
\* find_rtsp_paths is non-empty, and a list that holds an UnknownRTSP
\* record holds nothing else.
C15_UnknownAlone ==
    \A k \in DOMAIN pw :
        Returned(k) =>
            /\ pw[k].result # <<>>
            /\ Kinds(pw[k].result, "UnknownRTSP") # {} => Len(pw[k].result) = 1

\* Three probes gave no record at all and the list is the fallback alone.
C15_Witness ==
    \E k \in DOMAIN pw :
        /\ Returned(k)
        /\ pw[k].statuses = <<"NotFound", "Error", "NotFound">>
        /\ pw[k].result = <<UnknownRTSP(pw[k].mac, pw[k].addr)>>

\* ---------------------------------------------------------------- C16
DescribeFailed(resp) == resp.client /\ ~resp.describe
ProbeOf(w, w2) == w.state = "running" /\ w.i <= Len(paths) /\ w2 # w

\* C16 (per-path request failures are absorbed): a probe whose DESCRIBE
\* request fails records the status Error, adds nothing to the ok and
\* unsupported lists or the locked flag, and moves on to the next path; a
\* probe ends find_rtsp_paths with Err exactly when the RTSP client could
\* not be constructed, and then no status and no Service list is recorded
\* and the worker takes no further step; a worker that returns Ok has
\* probed every path.
C16_Absorbed ==
    [][ \A k \in DOMAIN pw :
          LET w  == pw[k]
              w2 == pw'[k]
          IN  /\ w.state = "err" => w2 = w
              /\ ProbeOf(w, w2) =>
                    /\ DescribeFailed(w2.last.resp) =>
                          /\ w2.state = "running"
                          /\ w2.i = w.i + 1
                          /\ w2.statuses = Append(w.statuses, "Error")
                          /\ w2.ok = w.ok
                          /\ w2.unsupported = w.unsupported
                          /\ w2.locked = w.locked
                    /\ w2.state = "err" <=> ~w2.last.resp.client
                    /\ w2.state = "err" =>
                          /\ w2.i = w.i
                          /\ w2.statuses = w.statuses
                          /\ w2.result = <<>>
              /\ w2.state = "ok" =>
                    /\ Len(w2.statuses) = Len(paths)
                    /\ w2.result # <<>> ]_vars

\* The DESCRIBE request for the first of two paths failed; the worker is
\* about to probe the second.
C16_Witness ==
    \E k \in DOMAIN pw :
        /\ Len(paths) = 2
        /\ pw[k].state = "running"
        /\ pw[k].i = 2
        /\ pw[k].last.resp = DescribeFailure
        /\ pw[k].statuses = <<"Error">>

\* ---------------------------------------------------------------- C17
Recognized == {EncH264, EncH264Rcdo, EncH264Svc, EncMp4vEs, EncMpeg4Generic}
SameLetter(a, b) ==
    \/ a = b
    \/ \E n \in DOMAIN LowerCase :
          {a, b} = {LowerCase[n], UpperCase[n]}
SameIgnoringCase(s, t) ==
    /\ Len(s) = Len(t)
    /\ \A n \in DOMAIN s : SameLetter(s[n], t[n])
HasRecognizedVideo(sdp) ==
    /\ sdp.parse_ok
    /\ \E m \in DOMAIN sdp.media_descriptions :
          LET md == sdp.media_descriptions[m]
          IN  /\ md.media_type = "Video"
              /\ \E a \in DOMAIN md.attributes :
                    /\ md.attributes[a].rtpmap
                    /\ \E r \in Recognized : SameIgnoringCase(md.attributes[a].encoding, r)
CodecRule(l) ==
    /\ l.status = "Ok" <=> HasRecognizedVideo(l.resp.body)
    /\ l.status \in {"Ok", "Unsupported"}
    /\ ~l.resp.body.parse_ok => l.status = "Unsupported"

\* C17 as stated: every 200 response classifies as Ok iff its body parses
\* as SDP and a Video section has an rtpmap attribute with a recognized
\* encoding name, compared case-insensitively, and as Unsupported
\* otherwise.
C17_Original ==
    \A k \in DOMAIN pw :
        LET l == pw[k].last
        IN  (l # NoLast /\ l.resp.client /\ l.resp.describe /\ l.resp.code = 200)
            => CodecRule(l)

\* C17 (codec recognition): a 200 response to which the vendor-quirk
\* override does not apply classifies as Ok iff its body parses as SDP and
\* at least one Video section has an rtpmap attribute whose encoding name
\* is, ignoring case, one of H264, H264-RCDO, H264-SVC, MP4V-ES,
\* MPEG4-GENERIC; rtpmaps of other sections do not count, and a body that
\* does not parse gives Unsupported.
C17_CodecRecognition ==
    \A k \in DOMAIN pw :
        LET l == pw[k].last
        IN  (l # NoLast /\ l.resp.client /\ l.resp.describe /\ l.resp.code = 200
                        /\ ~QuirkApplies(l))
            => CodecRule(l)

\* A 200 response whose audio section names H264 and whose video section
\* names MP4V-ES in mixed case was classified as Ok.
C17_Witness ==
    \E k \in DOMAIN pw :
        LET l == pw[k].last
        IN  /\ l.resp.code = 200
            /\ ~QuirkApplies(l)
            /\ l.resp.body = Sdp(TRUE, <<Media("Audio", <<Attr(TRUE, EncH264)>>),
                                         Media("Video", <<Attr(TRUE, EncMixedMp4vEs)>>)>>)
            /\ l.status = "Ok"

\* ---------------------------------------------------------------- C18
ScanOrder == <<"arp", "icmp", "tcp">>
CallsInOrder(calls) ==
    /\ Len(calls) <= Len(ScanOrder)
    /\ \A n \in DOMAIN calls : calls[n].scan = ScanOrder[n]
    /\ \A n \in DOMAIN calls : n < Len(calls) => calls[n].ok
LastCallFailed(calls) == calls # <<>> /\ ~calls[Len(calls)].ok
SightedHosts(w) == {h \in NetHosts : h.mac \in w.arp \cup w.icmp}
FindServicesState(w) ==
    /\ CallsInOrder(w.calls)
    /\ w.state = "arp" => w.calls = <<>>
    /\ w.state = "icmp" => Len(w.calls) = 1 /\ ~LastCallFailed(w.calls)
    /\ w.state = "tcp" => Len(w.calls) = 2 /\ ~LastCallFailed(w.calls)
    /\ w.state = "ok" =>
          /\ Len(w.calls) = 3 /\ ~LastCallFailed(w.calls)
          /\ {[mac |-> h.mac, ip |-> h.ip] : h \in w.report.hosts} = SightedHosts(w)
    /\ w.state = "err" <=> LastCallFailed(w.calls)
    /\ w.state = "err" => w.report = ScanReportNew

\* C18 (per-interface worker): find_services invokes the ARP scan, then
\* the ICMP scan, then the TCP port scan, each only after the one before
\* it succeeded; the port scan is given exactly the hosts sighted by ARP
\* or ICMP; a failed scan ends the worker with an error, with no fragment
\* and no later scan.
C18_FindServices ==
    [][ \A d \in DOMAIN dw :
          /\ FindServicesState(dw[d])
          /\ (DOMAIN dw' = DOMAIN dw) =>
                /\ FindServicesState(dw'[d])
                /\ dw[d].state = "err" => dw'[d] = dw[d]
                /\ Len(dw'[d].calls) = 3 /\ Len(dw[d].calls) = 2
                      => dw'[d].tcp_hosts = SightedHosts(dw[d]) ]_vars

\* A worker whose ARP and ICMP scans sighted different hosts has run the
\* port scan on both; another worker failed in its ICMP scan.
C18_Witness ==
    /\ devs = 2
    /\ dw[1].state = "ok"
    /\ dw[1].arp # {} /\ dw[1].icmp # {} /\ dw[1].arp \cap dw[1].icmp = {}
    /\ dw[1].tcp_hosts = SightedHosts(dw[1])
    /\ dw[2].state = "err"
    /\ Len(dw[2].calls) = 2

\* ---------------------------------------------------------------- C19
\* The worker the orchestrator is waiting for has failed.
AtFailedJoin ==
    \/ pc = "join_dev" /\ idx \in DOMAIN dw /\ dw[idx].state \in Failed
    \/ pc = "join_rtsp" /\ idx \in DOMAIN cw /\ cw[idx].state \in Failed
    \/ pc = "join_path" /\ idx \in DOMAIN pw /\ pw[idx].state \in Failed
OrchestratorStep == <<pc, idx, report, res, services, result>>' # <<pc, idx, report, res, services, result>>
NothingJoined ==
    /\ DOMAIN dw' = DOMAIN dw /\ DOMAIN cw' = DOMAIN cw /\ DOMAIN pw' = DOMAIN pw
    /\ \A d \in DOMAIN dw : dw'[d].state = "joined" => dw[d].state = "joined"
    /\ \A k \in DOMAIN cw : cw'[k].state = "joined" => cw[k].state = "joined"
    /\ \A k \in DOMAIN pw : pw'[k].state = "joined" => pw[k].state = "joined"

\* C19 (fail-fast at join): when the worker the orchestrator joins next in
\* spawn order has failed or panicked, the orchestrator's step returns Err
\* and neither spawns nor joins a worker nor changes the report or the
\* collected lists; after find_rtsp_streams has returned nothing of that
\* changes any more, while workers that were not joined may still run.
C19_FailFast ==
    [][ /\ (AtFailedJoin /\ OrchestratorStep) =>
              /\ pc' = "done"
              /\ ~result'.ok /\ result' # NoResult
              /\ UNCHANGED <<idx, report, res, services>>
              /\ NothingJoined
        /\ pc = "done" =>
              /\ UNCHANGED <<pc, idx, report, res, services, result>>
              /\ NothingJoined ]_vars

\* The first interface worker failed, find_rtsp_streams has returned the
\* error and the second interface worker is still scanning.
C19_Witness ==
    /\ devs = 2
    /\ pc = "done"
    /\ ~result.ok /\ result # NoResult
    /\ dw[1].state \in Failed
    /\ dw[2].state \in DevRunning

\* ---------------------------------------------------------------- C20
\* C20 (termination): when every collaborator call returns and the threads
\* are scheduled fairly, every run of find_rtsp_streams eventually returns
\* Ok or Err; the orchestrator never waits forever at a join.
C20_Terminates == <>(pc = "done" /\ result # NoResult)

\* A run that went through all three join loops, with an interface worker,
\* two confirmation workers and a path worker, and returned Ok.
C20_Witness ==
    /\ pc = "done"
    /\ result.ok
    /\ devs = 1
    /\ Len(cw) = 2
    /\ Len(pw) = 1
    /\ \A k \in DOMAIN pw : pw[k].state = "joined"

====
